---- MODULE Spec2Model ----
(***************************************************************************)
(* Attention extraction for vision-language models: the Qwen3-VL adapter   *)
(* (classify_token, build_image_grid), the adapter registry's family       *)
(* detection, the CLI entry point and the run_extraction pipeline.         *)
(*                                                                         *)
(* Python strings are sequences of one-character strings, Python lists are *)
(* sequences read through a 0-based index (At), and a dict is a function   *)
(* whose DOMAIN is the set of its keys.                                    *)
(***************************************************************************)
EXTENDS Integers, Sequences, FiniteSets, TLC

VARIABLES
    \* ---- one call of Qwen3VLAdapter.build_image_grid
    grid_pc,        \* "call" | "returned" | "raised" | "idle"
    grid_args,      \* [input_ids, image_width, image_height]
    grid_ret,       \* the GridInfo returned
    \* ---- one call of Qwen3VLAdapter.classify_token
    cls_pc,         \* "call" | "returned" | "idle"
    cls_args,       \* [token_id, token_text]
    cls_ret,        \* "image" | "special" | "text"
    \* ---- one run of run_extraction
    pc,             \* the statement run_extraction is at
    run_args,       \* [mode, image_exists, suffix, model_name, prompt]
    world,          \* what the image file, the model and the processor yield
    orig_w, orig_h, num_layers, num_heads,
    inputs, input_ids_list, forward_inputs, seq_len, token_texts,
    image_grid_info, attentions, layer_idx,
    attn_files,     \* output_dir: file name -> tensor written
    write_log,      \* output_dir: attention file names in the order written
    meta_exists,    \* output_dir / "meta.json" exists
    meta,           \* its content
    image_saved,    \* output_dir / "image.jpg" exists
    failed_at,      \* the statement an exception left run_extraction from
    call_log,       \* the calls made so far, in order, each with its inputs
    \* ---- one call of main
    cli_pc,         \* the statement main is at
    cli_args,       \* the parsed arguments [model_type, model, mode]
    model_type,     \* main's local
    exit_code,      \* the code sys.exit was called with, -1 before
    adapter_call,   \* the call of get_adapter
    run_call        \* the call of run_extraction

gridVars == <<grid_pc, grid_args, grid_ret>>
clsVars  == <<cls_pc, cls_args, cls_ret>>
localVars == <<orig_w, orig_h, num_layers, num_heads, inputs, input_ids_list,
               forward_inputs, seq_len, token_texts, image_grid_info, attentions,
               layer_idx>>
dirVars  == <<attn_files, write_log, meta_exists, meta, image_saved>>
runVars  == <<pc, run_args, world, localVars, dirVars, failed_at, call_log>>
cliVars  == <<cli_pc, cli_args, model_type, exit_code, adapter_call, run_call>>
vars     == <<gridVars, clsVars, runVars, cliVars>>

----------------------------------------------------------------------------
\* Bounds of the model.

\* longest token-id sequence handed to build_image_grid on its own
MaxSeqLen == 4
\* image sides are multiples of 16 px, up to 16 * MaxDim16
MaxDim16 == 6
\* longest token text handed to classify_token on its own
MaxTextLen == 4
\* longest prompt the processor yields in a run
MaxPrompt == 2
\* most tokens model.generate appends in a run
MaxGen == 1
\* image sides of a run are multiples of 16 px, up to 16 * MaxRunDim16
MaxRunDim16 == 2
\* most layers the model configuration reports in a run
MaxLayers == 2
\* most attention tensors a forward pass returns in a serialization run
MaxWideLayers == 101

----------------------------------------------------------------------------
\* Python values.

\* the absent index (Python None in an int | None slot)
NoIdx == -1

\* list[i], 0-based
At(list, i) == list[i + 1]

\* str.startswith
StartsWith(s, prefix) ==
    /\ Len(s) >= Len(prefix)
    /\ SubSeq(s, 1, Len(prefix)) = prefix

\* str.endswith
EndsWith(s, suffix) ==
    /\ Len(s) >= Len(suffix)
    /\ SubSeq(s, Len(s) - Len(suffix) + 1, Len(s)) = suffix

\* the set of sequences over S of length at most n
RECURSIVE SeqsUpTo(_, _)
SeqsUpTo(S, n) ==
    IF n = 0 THEN {<< >>}
    ELSE LET shorter == SeqsUpTo(S, n - 1)
         IN  shorter \cup {Append(s, x) : s \in {t \in shorter : Len(t) = n - 1}, x \in S}

----------------------------------------------------------------------------
\* Qwen VL special token ids.

VISION_START_ID == 151652
VISION_END_ID == 151653
IMAGE_TOKEN_ID == 151655
\* an ordinary vocabulary entry
TEXT_TOKEN_ID == 9707

----------------------------------------------------------------------------
\* Qwen3VLAdapter.classify_token

classify_token_no_bracket_rule(token_id, token_text) ==
    IF token_id = IMAGE_TOKEN_ID THEN "image"
    ELSE IF StartsWith(token_text, <<"<", "|">>) /\ EndsWith(token_text, <<"|", ">">>)
         THEN "special"
    ELSE "text"

classify_token_text_first(token_id, token_text) ==
    IF StartsWith(token_text, <<"<", "|">>) /\ EndsWith(token_text, <<"|", ">">>)
    THEN "special"
    ELSE IF StartsWith(token_text, <<"<">>) /\ EndsWith(token_text, <<">">>)
         THEN "special"
    ELSE IF token_id = IMAGE_TOKEN_ID THEN "image"
    ELSE "text"

classify_token(token_id, token_text) ==
    IF token_id = IMAGE_TOKEN_ID THEN "image"
    ELSE IF StartsWith(token_text, <<"<", "|">>) /\ EndsWith(token_text, <<"|", ">">>)
         THEN "special"
    ELSE IF StartsWith(token_text, <<"<">>) /\ EndsWith(token_text, <<">">>)
         THEN "special"
    ELSE "text"

----------------------------------------------------------------------------
\* GridInfo and Qwen3VLAdapter.build_image_grid

GridInfo(grid_rows, grid_cols, start_idx, end_idx, positions) ==
    [grid_rows |-> grid_rows, grid_cols |-> grid_cols,
     start_idx |-> start_idx, end_idx |-> end_idx, positions |-> positions]

\* the empty dict
EmptyDict == << >>

merge_size == 2
patch_size == 16
effective_patch == patch_size * merge_size

\* first loop: the first and the last index holding the placeholder id
RECURSIVE ScanImageBlock(_, _, _, _)
ScanImageBlock(input_ids, i, start_idx, end_idx) ==
    IF i >= Len(input_ids) THEN <<start_idx, end_idx>>
    ELSE IF At(input_ids, i) = IMAGE_TOKEN_ID
         THEN ScanImageBlock(input_ids, i + 1,
                             IF start_idx = NoIdx THEN i ELSE start_idx, i)
         ELSE ScanImageBlock(input_ids, i + 1, start_idx, end_idx)

RECURSIVE AssignPositions_column_major(_, _, _, _, _, _)
AssignPositions_column_major(input_ids, i, end_idx, img_idx, grid_cols, positions) ==
    IF i > end_idx THEN [raised |-> FALSE, positions |-> positions]
    ELSE IF At(input_ids, i) = IMAGE_TOKEN_ID
         THEN IF grid_cols = 0
              THEN [raised |-> TRUE, positions |-> positions]
              ELSE AssignPositions_column_major(input_ids, i + 1, end_idx, img_idx + 1,
                       grid_cols,
                       (i :> <<img_idx % grid_cols, img_idx \div grid_cols>>) @@ positions)
         ELSE AssignPositions_column_major(input_ids, i + 1, end_idx, img_idx, grid_cols,
                                           positions)

AssignPositions_every_token(input_ids, i, end_idx, img_idx, grid_cols, positions) ==
    IF grid_cols = 0 THEN [raised |-> TRUE, positions |-> positions]
    ELSE [raised |-> FALSE,
          positions |-> [t \in i..end_idx |->
                            <<(t - i) \div grid_cols, (t - i) % grid_cols>>]]

\* second loop: row-major positions of the placeholders in [i, end_idx];
\* [raised |-> TRUE] when img_idx // grid_cols divides by zero
RECURSIVE AssignPositions(_, _, _, _, _, _)
AssignPositions(input_ids, i, end_idx, img_idx, grid_cols, positions) ==
    IF i > end_idx THEN [raised |-> FALSE, positions |-> positions]
    ELSE IF At(input_ids, i) = IMAGE_TOKEN_ID
         THEN IF grid_cols = 0
              THEN [raised |-> TRUE, positions |-> positions]
              ELSE AssignPositions(input_ids, i + 1, end_idx, img_idx + 1, grid_cols,
                       (i :> <<img_idx \div grid_cols, img_idx % grid_cols>>) @@ positions)
         ELSE AssignPositions(input_ids, i + 1, end_idx, img_idx, grid_cols, positions)

build_image_grid_no_sentinel(input_ids, image_width, image_height) ==
    LET grid_cols == image_width \div effective_patch
        grid_rows == image_height \div effective_patch
        block     == ScanImageBlock(input_ids, 0, NoIdx, NoIdx)
    IN  IF block[1] = NoIdx
        THEN [raised |-> FALSE, info |-> GridInfo(grid_rows, grid_cols, 0, 0, EmptyDict)]
        ELSE LET loop == AssignPositions(input_ids, block[1], block[2], 0,
                                         grid_cols, EmptyDict)
             IN  [raised |-> loop.raised,
                  info   |-> GridInfo(grid_rows, grid_cols, block[1], block[2],
                                      loop.positions)]

\* [raised |-> TRUE] stands for the ZeroDivisionError leaving the call
build_image_grid(input_ids, image_width, image_height) ==
    LET grid_cols == image_width \div effective_patch
        grid_rows == image_height \div effective_patch
        block     == ScanImageBlock(input_ids, 0, NoIdx, NoIdx)
        start_idx == block[1]
        end_idx   == block[2]
    IN  IF start_idx = NoIdx \/ end_idx = NoIdx
        THEN [raised |-> FALSE, info |-> GridInfo(0, 0, 0, 0, EmptyDict)]
        ELSE LET loop == AssignPositions(input_ids, start_idx, end_idx, 0,
                                         grid_cols, EmptyDict)
             IN  [raised |-> loop.raised,
                  info   |-> GridInfo(grid_rows, grid_cols, start_idx, end_idx,
                                      loop.positions)]

----------------------------------------------------------------------------
\* run_extraction: helpers.

\* processor.tokenizer.decode([tid], skip_special_tokens=False)
Decode(tid) ==
    CASE tid = IMAGE_TOKEN_ID ->
             <<"<", "|", "i", "m", "a", "g", "e", "_", "p", "a", "d", "|", ">">>
      [] tid = VISION_START_ID ->
             <<"<", "|", "v", "i", "s", "i", "o", "n", "_", "s", "t", "a", "r", "t", "|", ">">>
      [] tid = VISION_END_ID ->
             <<"<", "|", "v", "i", "s", "i", "o", "n", "_", "e", "n", "d", "|", ">">>
      [] OTHER -> <<"H", "e", "l", "l", "o">>

\* torch.ones_like(ids)
OnesLike(ids) == [i \in 1..Len(ids) |-> 1]

\* format(n, "d")
DigitChars == <<"0", "1", "2", "3", "4", "5", "6", "7", "8", "9">>
RECURSIVE FormatD(_)
FormatD(n) ==
    IF n < 10 THEN <<DigitChars[n + 1]>>
    ELSE Append(FormatD(n \div 10), DigitChars[(n % 10) + 1])

Format02d_one_digit(n) == <<"0", DigitChars[(n % 10) + 1]>>

\* format(n, "02d"): zero-padded to at least two characters
Format02d(n) ==
    LET d == FormatD(n)
    IN  IF Len(d) < 2 THEN <<"0">> \o d ELSE d

\* f"attn_layer_{layer_idx:02d}.bin"
AttnFileName(idx) == <<"attn_layer_">> \o Format02d(idx) \o <<".bin">>

\* tensor.to(torch.float16): a float32 payload loses its low bit
ToFloat16(t) ==
    IF t.dtype = "float16" THEN t
    ELSE [t EXCEPT !.dtype = "float16", !.data = t.data - (t.data % 2)]

\* outputs.attentions: one tensor per layer the forward pass ran
ForwardAttentions(w) ==
    [l \in 1..w.n_attentions |-> [layer |-> l - 1, dtype |-> w.attn_dtype, data |-> l]]

generate_new_tokens_only(w, prompt_ids) == w.generated

\* model.generate(**inputs, do_sample=False)[0]: the prompt, then the new tokens
generate(w, prompt_ids) == prompt_ids \o w.generated

MinLen(a, b) == IF Len(a) <= Len(b) THEN Len(a) ELSE Len(b)

BuildTokensMeta_one_based(ids, texts, positions) ==
    [n \in 1..MinLen(ids, texts) |->
        [id |-> n, text |-> texts[n], type |-> classify_token(ids[n], texts[n])]]

\* the tokens_meta loop over enumerate(zip(input_ids_list, token_texts))
BuildTokensMeta(ids, texts, positions) ==
    [n \in 1..MinLen(ids, texts) |->
        LET i     == n - 1
            entry == [id |-> i, text |-> texts[n],
                      type |-> classify_token(ids[n], texts[n])]
        IN  IF i \in DOMAIN positions
            THEN ("grid_pos" :> positions[i]) @@ entry
            ELSE entry]

\* str.lower, on the ASCII letters
UpperChars == <<"A", "B", "C", "D", "E", "F", "G", "H", "I", "J", "K", "L", "M",
                "N", "O", "P", "Q", "R", "S", "T", "U", "V", "W", "X", "Y", "Z">>
LowerChars == <<"a", "b", "c", "d", "e", "f", "g", "h", "i", "j", "k", "l", "m",
                "n", "o", "p", "q", "r", "s", "t", "u", "v", "w", "x", "y", "z">>
LowerChar(c) ==
    IF \E k \in 1..Len(UpperChars) : UpperChars[k] = c
    THEN LowerChars[CHOOSE k \in 1..Len(UpperChars) : UpperChars[k] = c]
    ELSE c
Lower(s) == [k \in 1..Len(s) |-> LowerChar(s[k])]

\* image_path.suffix.lower() in (".jpg", ".jpeg")
IsJpegSuffix(sfx) ==
    Lower(sfx) \in {<<".", "j", "p", "g">>, <<".", "j", "p", "e", "g">>}

----------------------------------------------------------------------------
\* The adapter registry (models/__init__.py).

\* Python None in a str | None slot
None == <<"None">>

QWEN3_VL_KEY == <<"q", "w", "e", "n", "3", "-", "v", "l">>

\* _REGISTRY: key -> class name
REGISTRY == (QWEN3_VL_KEY :> "Qwen3VLAdapter")

\* _AUTO_DETECT: (pattern, model_type), in list order
AUTO_DETECT ==
    << <<QWEN3_VL_KEY, QWEN3_VL_KEY>>,
       << <<"q", "w", "e", "n", "3", "_", "v", "l">>, QWEN3_VL_KEY>> >>

\* pattern in s
Contains(s, pattern) ==
    \E k \in 0..(Len(s) - Len(pattern)) : SubSeq(s, k + 1, k + Len(pattern)) = pattern

\* the loop of detect_model_type from rule k on
RECURSIVE DetectFrom(_, _)
DetectFrom(lower, k) ==
    IF k > Len(AUTO_DETECT) THEN None
    ELSE IF Contains(lower, AUTO_DETECT[k][1]) THEN AUTO_DETECT[k][2]
    ELSE DetectFrom(lower, k + 1)

detect_model_type_case_sensitive(model_name) == DetectFrom(model_name, 1)

detect_model_type(model_name) == DetectFrom(Lower(model_name), 1)

\* Qwen3VLAdapter.default_model_name
default_model_name ==
    <<"Q", "w", "e", "n", "/", "Q", "w", "e", "n", "3", "-", "V", "L", "-", "2", "B",
      "-", "T", "h", "i", "n", "k", "i", "n", "g">>

----------------------------------------------------------------------------
\* The state before a call.

NoGrid == GridInfo(0, 0, 0, 0, EmptyDict)
NoInputs == [input_ids |-> << >>, attention_mask |-> << >>,
             pixel_values |-> << >>, image_grid_thw |-> << >>]
NoMeta == [seq_len |-> 0, num_layers |-> 0, tokens |-> << >>]

RunTokenIds == {IMAGE_TOKEN_ID, VISION_END_ID, TEXT_TOKEN_ID}
RunSides == {16 * k : k \in 1..MaxRunDim16}
HeadCounts == {2}
Suffixes == {<<".", "J", "P", "G">>, <<".", "p", "n", "g">>}

RunLocalsInit ==
    /\ orig_w = 0 /\ orig_h = 0 /\ num_layers = 0 /\ num_heads = 0
    /\ inputs = NoInputs /\ input_ids_list = << >> /\ forward_inputs = NoInputs
    /\ seq_len = 0 /\ token_texts = << >> /\ image_grid_info = NoGrid
    /\ attentions = << >> /\ layer_idx = 0
    /\ call_log = << >>

\* a fresh output directory
FreshDir ==
    /\ attn_files = EmptyDict /\ write_log = << >>
    /\ meta_exists = FALSE /\ meta = NoMeta /\ image_saved = "absent"

DefaultWorld ==
    [image_w |-> 32, image_h |-> 32, num_hidden_layers |-> 1, num_attention_heads |-> 2,
     prompt_ids |-> <<TEXT_TOKEN_ID>>, generated |-> << >>, n_attentions |-> 1,
     attn_dtype |-> "float16"]

RunArgs(modes, exists) ==
    [mode : modes, image_exists : exists, suffix : Suffixes,
     model_name : {"Qwen/Qwen3-VL-2B-Thinking"}, prompt : {"Describe this image in detail."}]

RunIdle ==
    /\ pc = "idle"
    /\ run_args = [mode |-> "prefill", image_exists |-> FALSE, suffix |-> <<".", "p", "n", "g">>,
                   model_name |-> "", prompt |-> ""]
    /\ world = DefaultWorld
    /\ RunLocalsInit /\ FreshDir /\ failed_at = ""

GridIdle ==
    /\ grid_pc = "idle"
    /\ grid_args = [input_ids |-> << >>, image_width |-> 16, image_height |-> 16]
    /\ grid_ret = GridInfo(0, 0, 0, 0, EmptyDict)

ClsIdle ==
    /\ cls_pc = "idle"
    /\ cls_args = [token_id |-> TEXT_TOKEN_ID, token_text |-> << >>]
    /\ cls_ret = ""

NoCall == [called |-> FALSE, model_type |-> None, model_name |-> None, mode |-> ""]

CliIdle ==
    /\ cli_pc = "idle"
    /\ cli_args = [model_type |-> None, model |-> None, mode |-> "prefill"]
    /\ model_type = None
    /\ exit_code = -1
    /\ adapter_call = NoCall
    /\ run_call = NoCall

----------------------------------------------------------------------------
\* A call of build_image_grid on its own.

GridTokenIds == {IMAGE_TOKEN_ID, VISION_END_ID, TEXT_TOKEN_ID}
ImageSides == {16 * k : k \in 1..MaxDim16}

InitGrid ==
    /\ grid_pc = "call"
    /\ grid_args \in [input_ids : SeqsUpTo(GridTokenIds, MaxSeqLen),
                      image_width : ImageSides, image_height : ImageSides]
    /\ grid_ret = GridInfo(0, 0, 0, 0, EmptyDict)
    /\ ClsIdle /\ RunIdle /\ CliIdle

CallBuildImageGrid ==
    /\ grid_pc = "call"
    /\ LET r == build_image_grid(grid_args.input_ids, grid_args.image_width,
                                 grid_args.image_height)
       IN  /\ grid_pc' = IF r.raised THEN "raised" ELSE "returned"
           /\ grid_ret' = IF r.raised THEN grid_ret ELSE r.info
    /\ UNCHANGED <<grid_args, clsVars, runVars, cliVars>>

NextGrid == CallBuildImageGrid

SpecGrid == InitGrid /\ [][NextGrid]_vars

----------------------------------------------------------------------------
\* A call of classify_token on its own.

TextChars == {"<", "|", ">", "a"}
ClsTokenIds == {IMAGE_TOKEN_ID, VISION_START_ID, TEXT_TOKEN_ID}

InitClassify ==
    /\ cls_pc = "call"
    /\ cls_args \in [token_id : ClsTokenIds, token_text : SeqsUpTo(TextChars, MaxTextLen)]
    /\ cls_ret = ""
    /\ GridIdle /\ RunIdle /\ CliIdle

CallClassifyToken ==
    /\ cls_pc = "call"
    /\ cls_pc' = "returned"
    /\ cls_ret' = classify_token(cls_args.token_id, cls_args.token_text)
    /\ UNCHANGED <<cls_args, gridVars, runVars, cliVars>>

NextClassify == CallClassifyToken

SpecClassify == InitClassify /\ [][NextClassify]_vars

----------------------------------------------------------------------------
\* run_extraction: one action per statement group.

Worlds(maxGen) ==
    [image_w : RunSides, image_h : RunSides,
     num_hidden_layers : 1..MaxLayers, num_attention_heads : HeadCounts,
     prompt_ids : SeqsUpTo(RunTokenIds, MaxPrompt),
     generated : SeqsUpTo(RunTokenIds, maxGen),
     n_attentions : 0..(MaxLayers + 1), attn_dtype : {"float16"}]

InitRun ==
    /\ pc = "start"
    /\ \/ /\ run_args \in RunArgs({"prefill"}, {TRUE})
          /\ world \in Worlds(0)
       \/ /\ run_args \in RunArgs({"generate"}, {TRUE})
          /\ world \in Worlds(MaxGen)
       \/ /\ run_args \in RunArgs({"prefill", "generate"}, {FALSE})
          /\ world = DefaultWorld
    /\ RunLocalsInit /\ FreshDir /\ failed_at = ""
    /\ GridIdle /\ ClsIdle /\ CliIdle

\* a call into the adapter, the model or the file system, with the tensors
\* handed to it
Call(name, kwargs) == [call |-> name, kwargs |-> kwargs]

Abort(at) ==
    /\ pc' = "aborted"
    /\ failed_at' = at

\* output_dir.mkdir, image_path.exists, Image.open(...).size
OpenImage ==
    /\ pc = "start"
    /\ IF ~run_args.image_exists
       THEN /\ Abort("start")
            /\ UNCHANGED <<orig_w, orig_h>>
       ELSE /\ pc' = "load"
            /\ orig_w' = world.image_w
            /\ orig_h' = world.image_h
            /\ UNCHANGED failed_at
    /\ UNCHANGED <<run_args, world, num_layers, num_heads, inputs, input_ids_list,
                   forward_inputs, seq_len, token_texts, image_grid_info, attentions,
                   layer_idx, dirVars, gridVars, clsVars, cliVars, call_log>>

\* adapter.load, get_num_layers, get_num_heads
LoadModel ==
    /\ pc = "load"
    /\ pc' = "preprocess"
    /\ num_layers' = world.num_hidden_layers
    /\ num_heads' = world.num_attention_heads
    /\ call_log' = Append(call_log, Call("adapter.load", NoInputs))
    /\ UNCHANGED <<run_args, world, orig_w, orig_h, inputs, input_ids_list,
                   forward_inputs, seq_len, token_texts, image_grid_info, attentions,
                   layer_idx, dirVars, failed_at, gridVars, clsVars, cliVars>>

\* adapter.build_messages, adapter.preprocess, inputs["input_ids"][0].tolist()
Preprocess ==
    /\ pc = "preprocess"
    /\ pc' = "branch"
    /\ inputs' = [input_ids |-> world.prompt_ids,
                  attention_mask |-> OnesLike(world.prompt_ids),
                  pixel_values |-> <<"pixels", world.image_w, world.image_h>>,
                  image_grid_thw |-> <<"thw", world.image_w, world.image_h>>]
    /\ input_ids_list' = world.prompt_ids
    /\ call_log' = Append(call_log, Call("adapter.preprocess", NoInputs))
    /\ UNCHANGED <<run_args, world, orig_w, orig_h, num_layers, num_heads,
                   forward_inputs, seq_len, token_texts, image_grid_info, attentions,
                   layer_idx, dirVars, failed_at, gridVars, clsVars, cliVars>>

Generate_forward_on_prompt ==
    /\ pc = "branch"
    /\ run_args.mode = "generate"
    /\ forward_inputs' = inputs
    /\ input_ids_list' = generate(world, inputs.input_ids)
    /\ pc' = "decode"
    /\ call_log' = Append(call_log, Call("model.generate", inputs))
    /\ UNCHANGED <<run_args, world, orig_w, orig_h, num_layers, num_heads, inputs,
                   seq_len, token_texts, image_grid_info, attentions,
                   layer_idx, dirVars, failed_at, gridVars, clsVars, cliVars>>

\* mode == "generate": model.generate, then the forward inputs over the full sequence
Generate ==
    /\ pc = "branch"
    /\ run_args.mode = "generate"
    /\ LET gen_output == generate(world, inputs.input_ids)
       IN  /\ forward_inputs' = [input_ids |-> gen_output,
                                 attention_mask |-> OnesLike(gen_output),
                                 pixel_values |-> inputs.pixel_values,
                                 image_grid_thw |-> inputs.image_grid_thw]
           /\ input_ids_list' = gen_output
    /\ pc' = "decode"
    /\ call_log' = Append(call_log, Call("model.generate", inputs))
    /\ UNCHANGED <<run_args, world, orig_w, orig_h, num_layers, num_heads, inputs,
                   seq_len, token_texts, image_grid_info, attentions,
                   layer_idx, dirVars, failed_at, gridVars, clsVars, cliVars>>

\* else: forward_inputs = dict(inputs)
SkipGenerate ==
    /\ pc = "branch"
    /\ run_args.mode # "generate"
    /\ forward_inputs' = inputs
    /\ pc' = "decode"
    /\ UNCHANGED <<run_args, world, orig_w, orig_h, num_layers, num_heads, inputs,
                   input_ids_list, seq_len, token_texts, image_grid_info, attentions,
                   layer_idx, dirVars, failed_at, gridVars, clsVars, cliVars, call_log>>

\* seq_len = len(input_ids_list) and the token_texts loop
DecodeTokens ==
    /\ pc = "decode"
    /\ pc' = "grid"
    /\ seq_len' = Len(input_ids_list)
    /\ token_texts' = [n \in 1..Len(input_ids_list) |-> Decode(input_ids_list[n])]
    /\ UNCHANGED <<run_args, world, orig_w, orig_h, num_layers, num_heads, inputs,
                   input_ids_list, forward_inputs, image_grid_info, attentions,
                   layer_idx, dirVars, failed_at, gridVars, clsVars, cliVars, call_log>>

\* image_grid_info = adapter.build_image_grid(input_ids_list, orig_w, orig_h)
BuildGrid ==
    /\ pc = "grid"
    /\ LET r == build_image_grid(input_ids_list, orig_w, orig_h)
       IN  IF r.raised
           THEN /\ Abort("grid")
                /\ UNCHANGED image_grid_info
           ELSE /\ pc' = "forward"
                /\ image_grid_info' = r.info
                /\ UNCHANGED failed_at
    /\ UNCHANGED <<run_args, world, orig_w, orig_h, num_layers, num_heads, inputs,
                   input_ids_list, forward_inputs, seq_len, token_texts, attentions,
                   layer_idx, dirVars, gridVars, clsVars, cliVars, call_log>>

\* outputs = model(**forward_inputs, output_attentions=True); outputs.attentions
Forward ==
    /\ pc = "forward"
    /\ pc' = "serialize"
    /\ attentions' = ForwardAttentions(world)
    /\ layer_idx' = 0
    /\ call_log' = Append(call_log, Call("model.forward", forward_inputs))
    /\ UNCHANGED <<run_args, world, orig_w, orig_h, num_layers, num_heads, inputs,
                   input_ids_list, forward_inputs, seq_len, token_texts,
                   image_grid_info, dirVars, failed_at, gridVars, clsVars, cliVars>>

\* one iteration of: for layer_idx, attn_tensor in enumerate(attentions)
SaveLayer ==
    /\ pc = "serialize"
    /\ layer_idx < Len(attentions)
    /\ LET attn_np  == ToFloat16(At(attentions, layer_idx))
           out_path == AttnFileName(layer_idx)
       IN  /\ attn_files' = (out_path :> attn_np) @@ attn_files
           /\ write_log' = Append(write_log, out_path)
    /\ layer_idx' = layer_idx + 1
    /\ UNCHANGED <<pc, run_args, world, orig_w, orig_h, num_layers, num_heads, inputs,
                   input_ids_list, forward_inputs, seq_len, token_texts,
                   image_grid_info, attentions, meta_exists, meta, image_saved,
                   failed_at, gridVars, clsVars, cliVars, call_log>>

\* the loop is exhausted
EndSerialize ==
    /\ pc = "serialize"
    /\ layer_idx >= Len(attentions)
    /\ pc' = "meta"
    /\ UNCHANGED <<run_args, world, localVars, dirVars, failed_at, gridVars, clsVars, cliVars, call_log>>

\* tokens_meta, meta, json.dump to output_dir / "meta.json"
WriteMeta ==
    /\ pc = "meta"
    /\ pc' = "copy"
    /\ meta_exists' = TRUE
    /\ meta' = [model |-> run_args.model_name,
                mode |-> run_args.mode,
                prompt |-> run_args.prompt,
                image_path |-> "image.jpg",
                image_size |-> <<orig_w, orig_h>>,
                num_layers |-> num_layers,
                num_heads |-> num_heads,
                seq_len |-> seq_len,
                dtype |-> "float16",
                tokens |-> BuildTokensMeta(input_ids_list, token_texts,
                                           image_grid_info.positions),
                image_grid |-> [rows |-> image_grid_info.grid_rows,
                                cols |-> image_grid_info.grid_cols,
                                start_idx |-> image_grid_info.start_idx,
                                end_idx |-> image_grid_info.end_idx]]
    /\ call_log' = Append(call_log, Call("meta.json", NoInputs))
    /\ UNCHANGED <<run_args, world, localVars, attn_files, write_log, image_saved,
                   failed_at, gridVars, clsVars, cliVars>>

\* shutil.copy2 for a JPEG source, image.save(..., "JPEG") otherwise
CopyImage ==
    /\ pc = "copy"
    /\ pc' = "report"
    /\ image_saved' = IF IsJpegSuffix(run_args.suffix) THEN "copied" ELSE "re-encoded"
    /\ call_log' = Append(call_log, Call("image.jpg", NoInputs))
    /\ UNCHANGED <<run_args, world, localVars, attn_files, write_log, meta_exists,
                   meta, failed_at, gridVars, clsVars, cliVars>>

\* the closing report: stat of meta.json and of attn_layer_NN.bin for
\* NN in range(num_layers); a missing file raises FileNotFoundError
Report ==
    /\ pc = "report"
    /\ IF \A i \in 0..(num_layers - 1) : AttnFileName(i) \in DOMAIN attn_files
       THEN pc' = "done" /\ UNCHANGED failed_at
       ELSE Abort("report")
    /\ UNCHANGED <<run_args, world, localVars, dirVars, gridVars, clsVars, cliVars, call_log>>

\* the calls into the model, the processor and the file system can raise:
\* adapter.load, adapter.preprocess, model.generate, model(...), tofile,
\* open(meta_path, "w") and the copy or re-encoding of the image
FallibleAt == {"load", "preprocess", "branch", "forward", "serialize", "meta", "copy"}

StageFails ==
    /\ pc \in FallibleAt
    /\ pc = "branch" => run_args.mode = "generate"
    /\ pc = "serialize" => layer_idx < Len(attentions)
    /\ Abort(pc)
    /\ UNCHANGED <<run_args, world, localVars, dirVars, gridVars, clsVars, cliVars, call_log>>

NextRun ==
    \/ OpenImage
    \/ LoadModel
    \/ Preprocess
    \/ Generate
    \/ SkipGenerate
    \/ DecodeTokens
    \/ BuildGrid
    \/ Forward
    \/ SaveLayer
    \/ EndSerialize
    \/ WriteMeta
    \/ CopyImage
    \/ Report
    \/ StageFails

SpecRun == InitRun /\ [][NextRun]_vars

\* runs over models of many layers, on one image and one prompt
LayerWorlds ==
    [image_w : {32}, image_h : {32},
     num_hidden_layers : 1..MaxLayers, num_attention_heads : HeadCounts,
     prompt_ids : {<<IMAGE_TOKEN_ID, TEXT_TOKEN_ID>>},
     generated : {<<TEXT_TOKEN_ID>>},
     n_attentions : 0..MaxWideLayers, attn_dtype : {"float16", "float32"}]

InitLayers ==
    /\ pc = "start"
    /\ run_args \in RunArgs({"prefill", "generate"}, {TRUE, FALSE})
    /\ world \in LayerWorlds
    /\ RunLocalsInit /\ FreshDir /\ failed_at = ""
    /\ GridIdle /\ ClsIdle /\ CliIdle

SpecLayers == InitLayers /\ [][NextRun]_vars

----------------------------------------------------------------------------
\* main (cli.py).

\* model identifiers given on the command line: an organisation prefix, a
\* family name and a size suffix
NameOrgs == {<< >>, <<"Q", "w", "e", "n", "/">>, <<"q", "w", "e", "n">>}
NameCores ==
    {<< >>,
     <<"Q", "w", "e", "n", "3", "-", "V", "L">>,
     <<"q", "w", "e", "n", "3", "_", "v", "l">>,
     <<"Q", "W", "E", "N", "3", "_", "V", "L">>,
     <<"Q", "w", "e", "n", "3", "V", "L">>,
     <<"Q", "w", "e", "n", "2", "-", "V", "L">>,
     <<"w", "e", "n", "3", "-", "v", "l">>,
     <<"3", "-", "V", "L">>,
     <<"l", "l", "a", "v", "a">>}
NameTails == {<< >>, <<"-", "2", "B">>}
ModelNames == {o \o c \o t : o \in NameOrgs, c \in NameCores, t \in NameTails}

\* parse_args: --model-type is one of list_model_types() or absent
InitCli ==
    /\ cli_pc = "main"
    /\ cli_args \in [model_type : {None} \cup DOMAIN REGISTRY,
                     model : {None} \cup ModelNames,
                     mode : {"prefill", "generate"}]
    /\ model_type = None
    /\ exit_code = -1
    /\ adapter_call = NoCall
    /\ run_call = NoCall
    /\ GridIdle /\ ClsIdle /\ RunIdle

\* the three assignments that resolve model_type
ResolveModelType ==
    /\ cli_pc = "main"
    /\ LET t0 == cli_args.model_type
           t1 == IF t0 = None /\ cli_args.model # None
                 THEN detect_model_type(cli_args.model) ELSE t0
           t2 == IF t1 = None /\ cli_args.model = None THEN QWEN3_VL_KEY ELSE t1
       IN  model_type' = t2
    /\ cli_pc' = "resolved"
    /\ UNCHANGED <<cli_args, exit_code, adapter_call, run_call, gridVars, clsVars, runVars>>

\* if model_type is None: print the diagnostic, sys.exit(1)
ExitUndetected ==
    /\ cli_pc = "resolved"
    /\ model_type = None
    /\ exit_code' = 1
    /\ cli_pc' = "exited"
    /\ UNCHANGED <<cli_args, model_type, adapter_call, run_call, gridVars, clsVars, runVars>>

\* adapter = get_adapter(model_type); model_name = args.model or adapter.default_model_name
GetAdapter ==
    /\ cli_pc = "resolved"
    /\ model_type # None
    /\ IF model_type \notin DOMAIN REGISTRY
       THEN /\ cli_pc' = "raised"
            /\ UNCHANGED adapter_call
       ELSE /\ cli_pc' = "adapter"
            /\ adapter_call' =
                   [called |-> TRUE, model_type |-> model_type,
                    model_name |-> IF cli_args.model = None \/ cli_args.model = << >>
                                   THEN default_model_name ELSE cli_args.model,
                    mode |-> ""]
    /\ UNCHANGED <<cli_args, model_type, exit_code, run_call, gridVars, clsVars, runVars>>

\* run_extraction(adapter, ..., model_name=model_name, mode=args.mode, ...)
CallRunExtraction ==
    /\ cli_pc = "adapter"
    /\ run_call' = [adapter_call EXCEPT !.mode = cli_args.mode]
    /\ cli_pc' = "called"
    /\ UNCHANGED <<cli_args, model_type, exit_code, adapter_call, gridVars, clsVars, runVars>>

NextCli ==
    \/ ResolveModelType
    \/ ExitUndetected
    \/ GetAdapter
    \/ CallRunExtraction

SpecCli == InitCli /\ [][NextCli]_vars

----------------------------------------------------------------------------
\* Vocabulary of the claims, stated without the code's loops.

\* the 0-based indices holding the image-placeholder id
PlaceholderIdx(ids) == {i \in 0..(Len(ids) - 1) : At(ids, i) = IMAGE_TOKEN_ID}

\* how many placeholders precede index i
Rank(ids, i) == Cardinality({j \in PlaceholderIdx(ids) : j < i})

MinOf(S) == CHOOSE m \in S : \A x \in S : m <= x
MaxOf(S) == CHOOSE m \in S : \A x \in S : m >= x

\* wrapped in angle-bracket markup: <|...|> or <...>
Wrapped(text) ==
    \/ StartsWith(text, <<"<", "|">>) /\ EndsWith(text, <<"|", ">">>)
    \/ StartsWith(text, <<"<">>) /\ EndsWith(text, <<">">>)

----------------------------------------------------------------------------
\* C1: with k >= 1 placeholders and grid_cols = image_width // 32 >= 1,
\* build_image_grid returns, positions has exactly k entries keyed by exactly
\* the placeholder indices, and the j-th placeholder (0-based, in sequence
\* order) sits at (j // grid_cols, j % grid_cols).
C1_RowMajorPositions ==
    LET ids  == grid_args.input_ids
        cols == grid_args.image_width \div 32
        k    == Cardinality(PlaceholderIdx(ids))
    IN  (grid_pc # "call" /\ grid_pc # "idle" /\ k >= 1 /\ cols >= 1) =>
            /\ grid_pc = "returned"
            /\ grid_ret.grid_cols = cols
            /\ DOMAIN grid_ret.positions = PlaceholderIdx(ids)
            /\ Cardinality(DOMAIN grid_ret.positions) = k
            /\ \A i \in PlaceholderIdx(ids) :
                   grid_ret.positions[i] =
                       <<Rank(ids, i) \div cols, Rank(ids, i) % cols>>

\* three placeholders with another token between them, on a grid two wide:
\* the third placeholder starts the second row
C1_Witness ==
    /\ grid_pc = "returned"
    /\ grid_args.input_ids = <<IMAGE_TOKEN_ID, TEXT_TOKEN_ID, IMAGE_TOKEN_ID, IMAGE_TOKEN_ID>>
    /\ grid_args.image_width = 64
    /\ grid_ret.positions[3] = <<1, 0>>

\* C4 as stated: whenever an image block exists,
\* len(positions) = end_idx - start_idx + 1, interleaved tokens or not.
C4_AsStated ==
    (grid_pc = "returned" /\ PlaceholderIdx(grid_args.input_ids) # {}) =>
        Cardinality(DOMAIN grid_ret.positions) = grid_ret.end_idx - grid_ret.start_idx + 1

\* C4 amended: start_idx and end_idx are the first and the last placeholder
\* index, len(positions) is end_idx - start_idx + 1 minus the number of
\* non-placeholder tokens inside [start_idx, end_idx], and so equals
\* end_idx - start_idx + 1 exactly when no such token is interleaved.
C4_BlockLength ==
    LET ids   == grid_args.input_ids
        P     == PlaceholderIdx(ids)
        inner == {i \in grid_ret.start_idx..grid_ret.end_idx : i \notin P}
        n     == Cardinality(DOMAIN grid_ret.positions)
        span  == grid_ret.end_idx - grid_ret.start_idx + 1
    IN  (grid_pc = "returned" /\ P # {}) =>
            /\ grid_ret.start_idx = MinOf(P)
            /\ grid_ret.end_idx = MaxOf(P)
            /\ n = span - Cardinality(inner)
            /\ (n = span) <=> (inner = {})

\* a block with one interleaved token: two positions over a span of three
C4_Witness ==
    /\ grid_pc = "returned"
    /\ grid_args.input_ids = <<TEXT_TOKEN_ID, IMAGE_TOKEN_ID, VISION_END_ID, IMAGE_TOKEN_ID>>
    /\ grid_ret.start_idx = 1
    /\ grid_ret.end_idx = 3
    /\ Cardinality(DOMAIN grid_ret.positions) = 2

\* C10 as stated: image iff the id is the placeholder id, special iff the
\* text is wrapped in angle-bracket markup, text otherwise.
C10_AsStated ==
    cls_pc = "returned" =>
        /\ cls_ret \in {"image", "special", "text"}
        /\ (cls_ret = "image") <=> (cls_args.token_id = IMAGE_TOKEN_ID)
        /\ (cls_ret = "special") <=> Wrapped(cls_args.token_text)
        /\ (cls_ret = "text") <=>
               (cls_args.token_id # IMAGE_TOKEN_ID /\ ~Wrapped(cls_args.token_text))

\* C10 amended: image iff the id is the placeholder id; special iff the id
\* is not the placeholder id and the text is wrapped in angle-bracket
\* markup; text otherwise.
C10_Classification ==
    cls_pc = "returned" =>
        /\ cls_ret \in {"image", "special", "text"}
        /\ (cls_ret = "image") <=> (cls_args.token_id = IMAGE_TOKEN_ID)
        /\ (cls_ret = "special") <=>
               (cls_args.token_id # IMAGE_TOKEN_ID /\ Wrapped(cls_args.token_text))
        /\ (cls_ret = "text") <=>
               (cls_args.token_id # IMAGE_TOKEN_ID /\ ~Wrapped(cls_args.token_text))

\* a non-placeholder id whose text is <a>: special by the second rule alone
C10_Witness ==
    /\ cls_pc = "returned"
    /\ cls_args.token_id = VISION_START_ID
    /\ cls_args.token_text = <<"<", "a", ">">>
    /\ cls_ret = "special"

----------------------------------------------------------------------------
\* Vocabulary of the claims about a run.

\* build_image_grid has returned in this run
GridBuilt ==
    \/ pc \in {"forward", "serialize", "meta", "copy", "report", "done"}
    \/ pc = "aborted" /\ failed_at \in {"forward", "serialize", "meta", "copy", "report"}

\* the loop over the attention tensors has run to its end
SerializeDone ==
    \/ pc \in {"meta", "copy", "report", "done"}
    \/ pc = "aborted" /\ failed_at \in {"meta", "copy", "report"}

\* attn_layer_NN.bin, NN the decimal layer index padded with a zero to two digits
LayerFileName(i) ==
    LET d(x) == DigitChars[x + 1]
    IN  <<"attn_layer_">> \o
        (IF i < 10 THEN <<"0", d(i)>>
         ELSE IF i < 100 THEN <<d(i \div 10), d(i % 10)>>
         ELSE <<d(i \div 100), d((i \div 10) % 10), d(i % 10)>>) \o
        <<".bin">>

\* the model identifier names the Qwen3-VL family, in any letter case
NamesQwen3VL(name) ==
    \/ Contains(Lower(name), <<"q", "w", "e", "n", "3", "-", "v", "l">>)
    \/ Contains(Lower(name), <<"q", "w", "e", "n", "3", "_", "v", "l">>)

\* C2 as stated: a run that aborted, at whatever statement, left no meta.json.
C2_AsStated == pc = "aborted" => ~meta_exists

\* C3 as stated: a forward pass whose tensor count differs from the reported
\* layer count makes the run abort with no meta.json; whenever meta.json is
\* written, its num_layers is the number of attention files written.
C3_AsStated ==
    /\ meta_exists => meta.num_layers = Cardinality(DOMAIN attn_files)
    /\ (SerializeDone /\ Len(attentions) # num_layers) => ~meta_exists
    /\ (pc = "done") => Len(attentions) = num_layers

\* C5: a sequence without placeholder never makes build_image_grid raise, the
\* grid it returns is the empty sentinel whatever the image size, and no
\* token entry of meta.json carries grid_pos.
C5_NoImageSentinel ==
    PlaceholderIdx(input_ids_list) = {} =>
        /\ ~(pc = "aborted" /\ failed_at = "grid")
        /\ GridBuilt => image_grid_info = GridInfo(0, 0, 0, 0, << >>)
        /\ meta_exists =>
              /\ \A n \in DOMAIN meta.tokens : "grid_pos" \notin DOMAIN meta.tokens[n]
              /\ meta.image_grid = [rows |-> 0, cols |-> 0, start_idx |-> 0, end_idx |-> 0]

\* a finished run over two non-placeholder tokens and an image 32 px wide
C5_Witness ==
    /\ pc = "done"
    /\ input_ids_list = <<TEXT_TOKEN_ID, VISION_END_ID>>
    /\ orig_w = 32 /\ orig_h = 32
    /\ Len(meta.tokens) = 2
    /\ image_grid_info.grid_cols = 0

\* C6: the k-th file written is attn_layer_NN.bin with NN = k (from 0), the
\* names are pairwise distinct and each written once, file i holds the
\* float16 cast of tensor i, and once the loop has ended there are exactly
\* as many files as the forward pass returned tensors.
C6_LayerFiles ==
    /\ \A k \in 1..Len(write_log) : write_log[k] = LayerFileName(k - 1)
    /\ DOMAIN attn_files = {write_log[k] : k \in 1..Len(write_log)}
    /\ Cardinality(DOMAIN attn_files) = Len(write_log)
    /\ \A k \in 1..Len(write_log) :
          LET f == attn_files[write_log[k]]
          IN  /\ f.layer = k - 1
              /\ f.layer = attentions[k].layer
              /\ f.dtype = "float16"
              /\ f.data \in {attentions[k].data, attentions[k].data - 1}
    /\ SerializeDone =>
          /\ Len(write_log) = Len(attentions)
          /\ Len(attentions) = world.n_attentions

\* a finished run over 101 layers: layer 9 is in attn_layer_09.bin, layer 10
\* in attn_layer_10.bin and layer 100 in attn_layer_100.bin
C6_Witness ==
    /\ pc = "done"
    /\ Len(attentions) = 101
    /\ Len(write_log) = 101
    /\ attn_files[<<"attn_layer_", "0", "9", ".bin">>].layer = 9
    /\ attn_files[<<"attn_layer_", "1", "0", ".bin">>].layer = 10
    /\ attn_files[<<"attn_layer_", "1", "0", "0", ".bin">>].layer = 100

\* C7: meta.json of a generate-mode run has seq_len = prompt length +
\* generated length, that of a prefill-mode run has seq_len = prompt length,
\* and in both modes entry i < prompt length has the text and the type of
\* prompt token i: the two modes agree on the prompt's entries.
C7_GeneratePrefix ==
    meta_exists =>
        LET p == world.prompt_ids
        IN  /\ run_args.mode = "prefill" => meta.seq_len = Len(p)
            /\ run_args.mode = "generate" =>
                  meta.seq_len = Len(p) + Len(world.generated)
            /\ \A n \in 1..Len(p) :
                  /\ n \in DOMAIN meta.tokens
                  /\ meta.tokens[n].text = Decode(p[n])
                  /\ meta.tokens[n].type = classify_token(p[n], Decode(p[n]))

\* a generate-mode run: two prompt tokens, one generated
C7_Witness ==
    /\ pc = "done"
    /\ run_args.mode = "generate"
    /\ world.prompt_ids = <<IMAGE_TOKEN_ID, TEXT_TOKEN_ID>>
    /\ world.generated = <<VISION_END_ID>>
    /\ meta.seq_len = 3
    /\ meta.tokens[1].type = "image"
    /\ meta.tokens[3].type = "special"

\* C8: meta.json has seq_len token entries, the entry at array position i
\* has id i, and seq_len is the length of the sequence the forward pass got.
C8_TokenIds ==
    meta_exists =>
        /\ Len(meta.tokens) = meta.seq_len
        /\ \A n \in 1..Len(meta.tokens) : meta.tokens[n].id = n - 1
        /\ meta.seq_len = Len(forward_inputs.input_ids)
        /\ meta.seq_len = Len(forward_inputs.attention_mask)

\* a prefill-mode meta.json over two tokens
C8_Witness ==
    /\ meta_exists
    /\ run_args.mode = "prefill"
    /\ meta.seq_len = 2
    /\ meta.tokens[2].id = 1

\* C9: get_adapter gets the explicit family when one is given, else the family
\* detected from the model identifier when one is given and names it, else
\* (no identifier given) the fallback qwen3-vl; with no explicit family and an
\* identifier that names no family main exits with code 1 and calls neither
\* get_adapter nor run_extraction.
C9_FamilyResolution ==
    cli_pc \in {"exited", "adapter", "called", "raised"} =>
        LET explicit == cli_args.model_type # None
            given    == cli_args.model # None
        IN  /\ cli_pc # "raised"
            /\ explicit =>
                  /\ adapter_call.called
                  /\ adapter_call.model_type = cli_args.model_type
            /\ (~explicit /\ given /\ NamesQwen3VL(cli_args.model)) =>
                  /\ adapter_call.called
                  /\ adapter_call.model_type = <<"q", "w", "e", "n", "3", "-", "v", "l">>
            /\ (~explicit /\ ~given) =>
                  /\ adapter_call.called
                  /\ adapter_call.model_type = <<"q", "w", "e", "n", "3", "-", "v", "l">>
            /\ (~explicit /\ given /\ ~NamesQwen3VL(cli_args.model)) =>
                  /\ cli_pc = "exited"
                  /\ exit_code = 1
                  /\ ~adapter_call.called
                  /\ ~run_call.called
            /\ (cli_pc = "exited") => (~explicit /\ given /\ ~NamesQwen3VL(cli_args.model))
            /\ (cli_pc = "called") => run_call.called

\* no --model-type, --model Qwen/Qwen3VL-2B: no family detected, exit 1
C9_Witness ==
    /\ cli_pc = "exited"
    /\ exit_code = 1
    /\ cli_args.model_type = None
    /\ cli_args.model = <<"Q", "w", "e", "n", "/", "Q", "w", "e", "n", "3", "V", "L", "-", "2", "B">>
    /\ ~adapter_call.called

----------------------------------------------------------------------------
\* Vocabulary of the claims about the order of the calls.

\* the names of the calls made so far, in order
CallNames == [n \in 1..Len(call_log) |-> call_log[n].call]

\* the calls of a complete run, in the order the stages name them
StageCalls(mode) ==
    <<"adapter.load", "adapter.preprocess">>
    \o (IF mode = "generate" THEN <<"model.generate">> ELSE << >>)
    \o <<"model.forward", "meta.json", "image.jpg">>

IsPrefix(a, b) == Len(a) <= Len(b) /\ a = SubSeq(b, 1, Len(a))

Called(name) == \E n \in 1..Len(call_log) : call_log[n].call = name

\* the tensors handed to the one call of that name
KwargsOf(name) == call_log[CHOOSE n \in 1..Len(call_log) : call_log[n].call = name].kwargs

\* C11: the calls of a run are an initial part of load, preprocess, generate
\* (in generate mode only), forward, meta.json, image.jpg, each at most once;
\* the forward pass gets the prompt followed by the generated tokens, which is
\* the sequence meta.json describes, with a mask of ones of that length and
\* the vision tensors of the preprocessing; attention files are written only
\* after the forward call, and meta.json only after the last of them.
C11_StageOrder ==
    /\ IsPrefix(CallNames, StageCalls(run_args.mode))
    /\ Called("model.generate") =>
           KwargsOf("model.generate").input_ids = world.prompt_ids
    /\ Called("model.forward") =>
           LET f    == KwargsOf("model.forward")
               full == world.prompt_ids \o
                       (IF run_args.mode = "generate" THEN world.generated ELSE << >>)
           IN  /\ f.input_ids = full
               /\ f.input_ids = input_ids_list
               /\ Len(f.attention_mask) = Len(full)
               /\ \A k \in 1..Len(f.attention_mask) : f.attention_mask[k] = 1
               /\ f.pixel_values = inputs.pixel_values
               /\ f.image_grid_thw = inputs.image_grid_thw
               /\ inputs.pixel_values = <<"pixels", world.image_w, world.image_h>>
               /\ inputs.image_grid_thw = <<"thw", world.image_w, world.image_h>>
    /\ Len(write_log) > 0 => Called("model.forward")
    /\ \A a, b \in 1..Len(write_log) : write_log[a] = write_log[b] => a = b
    /\ Called("meta.json") =>
           /\ meta_exists
           /\ pc # "serialize"
           /\ Len(write_log) = Len(attentions)
           /\ meta.seq_len = Len(KwargsOf("model.forward").input_ids)
           /\ \A n \in 1..Len(meta.tokens) :
                  meta.tokens[n].text = Decode(KwargsOf("model.forward").input_ids[n])
    /\ meta_exists => Called("meta.json")

\* a complete generate-mode run with one generated token and two layers
C11_Witness ==
    /\ pc = "done"
    /\ run_args.mode = "generate"
    /\ world.prompt_ids = <<IMAGE_TOKEN_ID, TEXT_TOKEN_ID>>
    /\ world.generated = <<TEXT_TOKEN_ID>>
    /\ CallNames = StageCalls("generate")
    /\ Len(KwargsOf("model.forward").input_ids) = 3
    /\ Len(write_log) = 2

\* C12 as stated: build_image_grid is never entered with a width below one
\* effective patch and a placeholder in the sequence, and never raises: such
\* a run was rejected earlier.
C12_AsStated ==
    /\ pc = "grid" =>
           ~(orig_w \div effective_patch = 0 /\ PlaceholderIdx(input_ids_list) # {})
    /\ ~(pc = "aborted" /\ failed_at = "grid")

\* C13 as stated: every position of a GridInfo returned with grid_cols >= 1
\* lies inside the grid it reports, whatever the number of placeholders.
C13_AsStated ==
    (grid_pc = "returned" /\ grid_ret.grid_cols >= 1) =>
        \A i \in DOMAIN grid_ret.positions :
            LET row == grid_ret.positions[i][1]
                col == grid_ret.positions[i][2]
            IN  /\ 0 <= col /\ col < grid_ret.grid_cols
                /\ 0 <= row /\ row < grid_ret.grid_rows

\* C14: in a written meta.json an entry has grid_pos exactly when its type is
\* image, that is exactly when its token is the placeholder id, in the prompt
\* or among the generated tokens; two entries never share a grid_pos.
C14_GridPosIffImage ==
    meta_exists =>
        /\ \A n \in 1..Len(meta.tokens) :
               /\ "grid_pos" \in DOMAIN meta.tokens[n] <=> meta.tokens[n].type = "image"
               /\ meta.tokens[n].type = "image" <=> input_ids_list[n] = IMAGE_TOKEN_ID
        /\ \A a, b \in 1..Len(meta.tokens) :
               ("grid_pos" \in DOMAIN meta.tokens[a] /\ "grid_pos" \in DOMAIN meta.tokens[b]
                /\ meta.tokens[a].grid_pos = meta.tokens[b].grid_pos) => a = b

\* a generate-mode meta.json whose generated token is a placeholder: it gets
\* the position after the prompt's placeholder
C14_Witness ==
    /\ meta_exists
    /\ run_args.mode = "generate"
    /\ world.prompt_ids = <<IMAGE_TOKEN_ID, TEXT_TOKEN_ID>>
    /\ world.generated = <<IMAGE_TOKEN_ID>>
    /\ meta.tokens[1].grid_pos = <<0, 0>>
    /\ "grid_pos" \notin DOMAIN meta.tokens[2]
    /\ meta.tokens[3].type = "image"
    /\ meta.tokens[3].grid_pos = <<1, 0>>

====
